---- MODULE Spec2Model ----
(***************************************************************************)
(* The Comprehend pipeline notebook: the pipeline definition it builds     *)
(* (parameters, steps, property references, the accuracy condition), the   *)
(* cells that upsert, start, wait on, list and delete it, and one          *)
(* execution of that definition by the managed pipeline service; and the   *)
(* profiling notebook: the training job it starts without waiting, the     *)
(* waits for profiling data, the Python profiling cells and the            *)
(* data-loading cell.                                                      *)
(*                                                                         *)
(* Accuracy values are fixed-point hundredths: 0.65 is 65.                 *)
(***************************************************************************)
EXTENDS Integers, Sequences, FiniteSets, TLC

\* ------------------------------------------------------------------ bounds

\* Accuracies range over Threshold - AccuracySpread .. Threshold + AccuracySpread.
AccuracySpread == 1

\* ------------------------------------------------------- program constants

\* right=0.65 of the condition, in hundredths.
Threshold == 65

\* execution.wait(delay=300, max_attempts=25)
max_attempts == 25

Accuracies == (Threshold - AccuracySpread)..(Threshold + AccuracySpread)

\* sagemaker_session.default_bucket(): the account's bucket, fixed per session.
Buckets == {"bucket-a", "bucket-b"}

\* ------------------------------------------------------------------- state

VARIABLES
    default_bucket,      \* the session's default bucket
    pc,                  \* the notebook cell to run next
    attempts,            \* polls made by execution.wait
    wait_result,         \* how execution.wait ended
    last_status,         \* the execution status the last poll saw
    listed,              \* what execution.list_steps returned
    service_pipelines,   \* the pipeline definitions the service holds
    execution_status,    \* status of the notebook's execution
    execution_parameters,\* the parameter values of the execution
    status,              \* per step: NotStarted, Executing, Succeeded, Failed
    starts,              \* per step: how many times it was started
    observed,            \* per step: the parameter values it was started with
    outputs,             \* per step: the output channels it has uploaded
    reports,             \* per execution and step: Accuracy of evaluation.json
    cond_left,           \* the value the condition step compared
    cond_outcome,        \* "none", "true" or "false"
    lambda_events,       \* the events the Lambda function was invoked with
    cell,                \* profiling notebook: the cell to run next
    job_status,          \* the training job: NotStarted, InProgress, Completed
    available,           \* the kinds of profiling data the job has uploaded
    job_config,          \* PythonProfilingConfig of the training job
    defined,             \* the notebook variables assigned so far
    python_profiling_config_tj,
    use_pyinstrument,
    python_analysis_class,
    calls,               \* the library calls made, in order
    stats,               \* the stats last passed to display_python_profile_stats
    shown,               \* what that call displayed
    step_metrics_df,     \* the Step:ModeKeys.TRAIN rows
    iterator_metrics,    \* the data-loading events
    i,                   \* loop index of the data-loading cell
    printed              \* the lines the data-loading cell printed

notebook_vars == <<pc, attempts, wait_result, last_status, listed>>

execution_vars == <<execution_status, execution_parameters, status, starts,
                    observed, outputs, reports, cond_left, cond_outcome,
                    lambda_events>>

\* The state of the pipeline notebook and of its execution.
pipeline_vars == <<default_bucket, pc, attempts, wait_result, last_status,
                   listed, service_pipelines, execution_status,
                   execution_parameters, status, starts, observed, outputs,
                   reports, cond_left, cond_outcome, lambda_events>>

\* The state of the profiling notebook and of its training job.
profiling_vars == <<cell, job_status, available, job_config, defined,
                    python_profiling_config_tj, use_pyinstrument,
                    python_analysis_class, calls, stats, shown,
                    step_metrics_df, iterator_metrics, i, printed>>

vars == <<pipeline_vars, profiling_vars>>

\* ------------------------------------------------------ pipeline parameters

processing_instance_count ==
    [name |-> "ProcessingInstanceCount", type |-> "Integer", default_value |-> 1]

processing_instance_type ==
    [name |-> "ProcessingInstanceType", type |-> "String",
     default_value |-> "ml.m5.xlarge"]

input_train ==
    [name |-> "TrainData", type |-> "String",
     default_value |-> "s3://" \o default_bucket \o "/comprehend-train.csv"]

input_test ==
    [name |-> "TestData", type |-> "String",
     default_value |-> "s3://" \o default_bucket \o "/comprehend-test.csv"]

model_output ==
    [name |-> "ModelOutput", type |-> "String",
     default_value |-> "s3://" \o default_bucket \o "/model"]

\* The parameters the shared SKLearnProcessor is configured with.
sklearn_processor ==
    {processing_instance_type.name, processing_instance_count.name}

\* ------------------------------------------------------------------- steps

evaluation_report ==
    [name |-> "ComprehendEvaluationReport",
     output_name |-> "evaluation",
     path |-> "evaluation.json"]

\* A step: the parameters it reads, the step outputs it references
\* (<<step name, output name>>), the outputs and property files it declares,
\* the plain notebook values passed to it, and how many retries its
\* retry_policies allow (none is given: 0).

\* ComprehendProcess with a retry policy of one retry.
preprocess_with_retry ==
    [name |-> "ComprehendProcess",
     kind |-> "Processing",
     parameters |-> sklearn_processor \cup {input_train.name, input_test.name},
     references |-> {},
     outputs |-> {"train", "test"},
     property_files |-> {},
     literals |-> {},
     retry_policies |-> 1]

preprocess ==
    [name |-> "ComprehendProcess",
     kind |-> "Processing",
     parameters |-> sklearn_processor \cup {input_train.name, input_test.name},
     references |-> {},
     outputs |-> {"train", "test"},
     property_files |-> {},
     literals |-> {},
     retry_policies |-> 0]

comprehend_train_and_eval ==
    [name |-> "ComprehendTrainAndEval",
     kind |-> "Processing",
     parameters |-> sklearn_processor \cup {model_output.name},
     references |-> {<<preprocess.name, "train">>},
     outputs |-> {"evaluation", "arn"},
     property_files |-> {evaluation_report.name},
     literals |-> {"role_arn"},
     retry_policies |-> 0]

\* ComprehendDeploy reading an output ComprehendTrainAndEval does not declare.
step_deploy_model_undeclared_output ==
    [name |-> "ComprehendDeploy",
     kind |-> "Processing",
     parameters |-> sklearn_processor,
     references |-> {<<comprehend_train_and_eval.name, "model_arn">>},
     outputs |-> {"endpoint_arn"},
     property_files |-> {},
     literals |-> {},
     retry_policies |-> 0]

step_deploy_model ==
    [name |-> "ComprehendDeploy",
     kind |-> "Processing",
     parameters |-> sklearn_processor,
     references |-> {<<comprehend_train_and_eval.name, "arn">>},
     outputs |-> {"endpoint_arn"},
     property_files |-> {},
     literals |-> {},
     retry_policies |-> 0]

\* ConditionGreaterThanOrEqualTo(left=JsonGet(...), right=0.65)
cond_lte ==
    [step_name |-> "ComprehendTrainAndEval",
     property_file |-> evaluation_report.name,
     json_path |-> "Accuracy",
     right |-> Threshold]

step_cond ==
    [name |-> "ComprehendAccuracyCondition",
     kind |-> "Condition",
     parameters |-> {},
     references |-> {},
     outputs |-> {},
     property_files |-> {},
     literals |-> {},
     retry_policies |-> 0]

if_steps == {step_deploy_model.name}

else_steps == {}

\* The Lambda step with a retry policy of one retry.
test_endpoint_with_retry ==
    [name |-> "LambdaStep",
     kind |-> "Lambda",
     parameters |-> {},
     references |-> {<<step_deploy_model.name, "endpoint_arn">>},
     outputs |-> {},
     property_files |-> {},
     literals |-> {"example_text"},
     retry_policies |-> 1]

\* The Lambda step with a literal endpoint path instead of the reference.
test_endpoint_literal_input ==
    [name |-> "LambdaStep",
     kind |-> "Lambda",
     parameters |-> {},
     references |-> {},
     outputs |-> {},
     property_files |-> {},
     literals |-> {"example_text"},
     retry_policies |-> 0]

test_endpoint ==
    [name |-> "LambdaStep",
     kind |-> "Lambda",
     parameters |-> {},
     references |-> {<<step_deploy_model.name, "endpoint_arn">>},
     outputs |-> {},
     property_files |-> {},
     literals |-> {"example_text"},
     retry_policies |-> 0]

\* The pipeline with model_output left out of its parameters list.
pipeline_without_model_output ==
    [name |-> "ComprehendPipeline",
     parameters |-> <<processing_instance_type, processing_instance_count,
                      input_train, input_test>>,
     steps |-> <<preprocess.name, comprehend_train_and_eval.name,
                 step_cond.name, test_endpoint.name>>]

\* Pipeline(name, parameters=[...], steps=[...])
pipeline ==
    [name |-> "ComprehendPipeline",
     parameters |-> <<processing_instance_type, processing_instance_count,
                      input_train, input_test, model_output>>,
     steps |-> <<preprocess.name, comprehend_train_and_eval.name,
                 step_cond.name, test_endpoint.name>>]

\* Every step object the notebook builds, by name.
StepDefs == {preprocess, comprehend_train_and_eval, step_deploy_model,
             step_cond, test_endpoint}

\* The names of the steps.
Steps == {"ComprehendProcess", "ComprehendTrainAndEval",
          "ComprehendAccuracyCondition", "ComprehendDeploy", "LambdaStep"}

Def(s) == CHOOSE d \in StepDefs : d.name = s

Range(seq) == {seq[k] : k \in DOMAIN seq}

\* The steps that are part of the pipeline: the listed ones and the branches
\* of a listed condition step.
PipelineSteps ==
    Range(pipeline.steps)
        \cup (IF step_cond.name \in Range(pipeline.steps)
              THEN if_steps \cup else_steps ELSE {})

ParameterNames(p) == {p.parameters[k].name : k \in DOMAIN p.parameters}

\* The declared parameter of p named n.
Parameter(p, n) ==
    p.parameters[CHOOSE k \in DOMAIN p.parameters : p.parameters[k].name = n]

\* Only the branch structure orders the steps; output references do not.
DependsOnBranchOnly(s) ==
    (IF s = step_cond.name THEN {cond_lte.step_name} ELSE {})
        \cup (IF s \in if_steps \cup else_steps THEN {step_cond.name} ELSE {})

\* The steps s waits for: the producers of the outputs it references, the
\* step a condition reads its property file from, and the condition step
\* whose branch s is in.
DependsOn(s) ==
    {r[1] : r \in Def(s).references}
        \cup (IF s = step_cond.name THEN {cond_lte.step_name} ELSE {})
        \cup (IF s \in if_steps \cup else_steps THEN {step_cond.name} ELSE {})

NoValues == [p \in {} |-> 0]

\* The profiling notebook before any of its cells has run.
ProfilingNotRun ==
    /\ cell = "fit"
    /\ job_status = "NotStarted"
    /\ available = {}
    /\ job_config = NoValues
    /\ defined = {}
    /\ python_profiling_config_tj = NoValues
    /\ use_pyinstrument = FALSE
    /\ python_analysis_class = "unset"
    /\ calls = <<>>
    /\ stats = [kind |-> "None", items |-> <<>>]
    /\ shown = [displayed |-> <<>>, raised |-> FALSE]
    /\ step_metrics_df = <<>>
    /\ iterator_metrics = {}
    /\ i = 0
    /\ printed = <<>>

\* An evaluation.json is absent ({}) or holds one Accuracy ({a}).
Init ==
    /\ default_bucket \in Buckets
    /\ pc = "upsert"
    /\ attempts = 0
    /\ wait_result = "pending"
    /\ last_status = "none"
    /\ listed = {}
    /\ service_pipelines = {}
    /\ execution_status = "NotStarted"
    /\ execution_parameters = NoValues
    /\ status = [s \in Steps |-> "NotStarted"]
    /\ starts = [s \in Steps |-> 0]
    /\ observed = [s \in Steps |-> NoValues]
    /\ outputs = [s \in Steps |-> {}]
    /\ \E earlier \in {{}} \cup {{a} : a \in Accuracies} :
          reports = [e \in {"earlier", "current"} |->
                        [s \in Steps |->
                            IF e = "earlier" /\ s = comprehend_train_and_eval.name
                            THEN earlier ELSE {}]]
    /\ cond_left = {}
    /\ cond_outcome = "none"
    /\ lambda_events = <<>>
    /\ ProfilingNotRun

\* ---------------------------------------------------------- notebook cells

\* pipeline.upsert(role_arn=role_arn)
upsert ==
    /\ pc = "upsert"
    /\ service_pipelines' = {pipeline}
    /\ pc' = "start"
    /\ UNCHANGED <<default_bucket, attempts, wait_result, last_status, listed>>
    /\ UNCHANGED execution_vars
    /\ UNCHANGED profiling_vars

\* execution = pipeline.start(): no overrides, every parameter at its default.
start ==
    /\ pc = "start"
    /\ \E p \in service_pipelines :
          /\ p.name = pipeline.name
          /\ execution_parameters' =
                [n \in ParameterNames(p) |-> Parameter(p, n).default_value]
    /\ execution_status' = "Executing"
    /\ pc' = "wait"
    /\ UNCHANGED <<default_bucket, attempts, wait_result, last_status, listed,
                   service_pipelines, status, starts, observed, outputs,
                   reports, cond_left, cond_outcome,
                   lambda_events>>
    /\ UNCHANGED profiling_vars

\* The waiter gives up only when the polls made exceed max_attempts.
waitOneMoreAttempt ==
    /\ pc = "wait"
    /\ attempts' = attempts + 1
    /\ last_status' = execution_status
    /\ IF execution_status = "Succeeded"
       THEN wait_result' = "returned" /\ pc' = "list_steps"
       ELSE IF execution_status = "Failed"
       THEN wait_result' = "failure" /\ pc' = "error"
       ELSE IF attempts + 1 > max_attempts
       THEN wait_result' = "max_attempts" /\ pc' = "error"
       ELSE wait_result' = wait_result /\ pc' = "wait"
    /\ UNCHANGED <<default_bucket, listed, service_pipelines>>
    /\ UNCHANGED execution_vars
    /\ UNCHANGED profiling_vars

\* One poll of execution.wait(delay=300, max_attempts=25): describe the
\* execution, succeed on Succeeded, raise on Failed, raise once max_attempts
\* polls are used up, otherwise sleep and poll again.
wait ==
    /\ pc = "wait"
    /\ attempts' = attempts + 1
    /\ last_status' = execution_status
    /\ IF execution_status = "Succeeded"
       THEN wait_result' = "returned" /\ pc' = "list_steps"
       ELSE IF execution_status = "Failed"
       THEN wait_result' = "failure" /\ pc' = "error"
       ELSE IF attempts + 1 >= max_attempts
       THEN wait_result' = "max_attempts" /\ pc' = "error"
       ELSE wait_result' = wait_result /\ pc' = "wait"
    /\ UNCHANGED <<default_bucket, listed, service_pipelines>>
    /\ UNCHANGED execution_vars
    /\ UNCHANGED profiling_vars

\* execution.list_steps(): the steps that have started, with their status.
list_steps ==
    /\ pc = "list_steps"
    /\ listed' = {<<s, status[s]>> : s \in {t \in Steps : starts[t] > 0}}
    /\ pc' = "delete"
    /\ UNCHANGED <<default_bucket, attempts, wait_result, last_status,
                   service_pipelines>>
    /\ UNCHANGED execution_vars
    /\ UNCHANGED profiling_vars

\* The delete cell run without waiting for the cells before it.
deleteWhileWaiting ==
    /\ pc \in {"wait", "delete"}
    /\ service_pipelines' = {p \in service_pipelines : p.name # pipeline.name}
    /\ pc' = "done"
    /\ UNCHANGED <<default_bucket, attempts, wait_result, last_status, listed>>
    /\ UNCHANGED execution_vars
    /\ UNCHANGED profiling_vars

\* pipeline.delete()
delete ==
    /\ pc = "delete"
    /\ service_pipelines' = {p \in service_pipelines : p.name # pipeline.name}
    /\ pc' = "done"
    /\ UNCHANGED <<default_bucket, attempts, wait_result, last_status, listed>>
    /\ UNCHANGED execution_vars
    /\ UNCHANGED profiling_vars

\* ------------------------------------------- the execution of the pipeline

\* The property file is looked up by step name alone, whatever the execution.
JsonGetAnyExecution(e, c) ==
    IF c.property_file \in Def(c.step_name).property_files
       /\ c.json_path = "Accuracy"
    THEN IF reports["earlier"][c.step_name] # {}
         THEN reports["earlier"][c.step_name]
         ELSE reports[e][c.step_name]
    ELSE {}

\* JsonGet(step_name, property_file, json_path) in execution e: the field of
\* the property file the named step declares; nothing when it is not there.
JsonGet(e, c) ==
    IF c.property_file \in Def(c.step_name).property_files
       /\ c.json_path = "Accuracy"
    THEN reports[e][c.step_name]
    ELSE {}

\* A strict comparison in place of the condition's.
ConditionGreaterThan(left, right) == left > right

\* ConditionGreaterThanOrEqualTo: left >= right
ConditionGreaterThanOrEqualTo(left, right) == left >= right

\* Only the steps of the branch not taken count as skipped.
SkippedInBranchOnly(s) ==
    /\ status[s] = "NotStarted"
    /\ \/ s \in if_steps /\ cond_outcome = "false"
       \/ s \in else_steps /\ cond_outcome = "true"

RECURSIVE Skipped(_)
\* A step that will not run in this execution: it is in the branch the
\* condition did not take, or it waits for a step that will not run.
Skipped(s) ==
    /\ status[s] = "NotStarted"
    /\ \/ s \in if_steps /\ cond_outcome = "false"
       \/ s \in else_steps /\ cond_outcome = "true"
       \/ \E d \in DependsOn(s) : Skipped(d)

\* A step may start once every step it waits for has succeeded and, for a
\* step in a branch of the condition, the condition took that branch.
Ready(s) ==
    /\ execution_status = "Executing"
    /\ s \in PipelineSteps
    /\ status[s] = "NotStarted"
    /\ \A d \in DependsOn(s) : status[d] = "Succeeded"
    /\ s \in if_steps => cond_outcome = "true"
    /\ s \in else_steps => cond_outcome = "false"
    /\ \A t \in Steps : status[t] # "Failed"

\* The event a Lambda step invokes its function with: each referenced step
\* output resolved in the current execution, and the literal inputs.
LambdaEvent(s) ==
    [references |-> {<<"current", r[1], r[2]>> : r \in Def(s).references},
     literals |-> Def(s).literals]

\* A processing step that writes the instance count it resolved back into
\* the execution's parameters, one higher.
StartStepRewritingParameters(s) ==
    /\ Ready(s)
    /\ status' = [status EXCEPT ![s] = "Executing"]
    /\ starts' = [starts EXCEPT ![s] = @ + 1]
    /\ observed' = [observed EXCEPT
                       ![s] = [p \in Def(s).parameters |-> execution_parameters[p]]]
    /\ execution_parameters' =
          IF Def(s).kind = "Processing"
          THEN [execution_parameters EXCEPT !["ProcessingInstanceCount"] = @ + 1]
          ELSE execution_parameters
    /\ lambda_events' =
          IF Def(s).kind = "Lambda"
          THEN Append(lambda_events, LambdaEvent(s))
          ELSE lambda_events
    /\ UNCHANGED <<execution_status, outputs, reports, cond_left, cond_outcome>>
    /\ UNCHANGED <<default_bucket, service_pipelines>>
    /\ UNCHANGED notebook_vars
    /\ UNCHANGED profiling_vars

StartStep(s) ==
    /\ Ready(s)
    /\ status' = [status EXCEPT ![s] = "Executing"]
    /\ starts' = [starts EXCEPT ![s] = @ + 1]
    /\ observed' = [observed EXCEPT
                       ![s] = [p \in Def(s).parameters |-> execution_parameters[p]]]
    /\ lambda_events' =
          IF Def(s).kind = "Lambda"
          THEN Append(lambda_events, LambdaEvent(s))
          ELSE lambda_events
    /\ UNCHANGED <<execution_status, execution_parameters, outputs, reports,
                   cond_left, cond_outcome>>
    /\ UNCHANGED <<default_bucket, service_pipelines>>
    /\ UNCHANGED notebook_vars
    /\ UNCHANGED profiling_vars

\* A processing or Lambda step completes: its declared outputs are uploaded;
\* a step that declares the evaluation report writes an Accuracy into it.
SucceedStep(s) ==
    /\ execution_status = "Executing"
    /\ status[s] = "Executing"
    /\ Def(s).kind # "Condition"
    /\ status' = [status EXCEPT ![s] = "Succeeded"]
    /\ outputs' = [outputs EXCEPT ![s] = Def(s).outputs]
    /\ IF evaluation_report.name \in Def(s).property_files
       THEN \E a \in Accuracies :
               reports' = [reports EXCEPT !["current"][s] = {a}]
       ELSE reports' = reports
    /\ UNCHANGED <<execution_status, execution_parameters, starts, observed,
                   cond_left, cond_outcome,
                   lambda_events>>
    /\ UNCHANGED <<default_bucket, service_pipelines>>
    /\ UNCHANGED notebook_vars
    /\ UNCHANGED profiling_vars

\* The condition step reads its left operand and picks the branch.
EvaluateCondition ==
    /\ execution_status = "Executing"
    /\ status[step_cond.name] = "Executing"
    /\ LET left == JsonGet("current", cond_lte)
       IN /\ left # {}
          /\ cond_left' = left
          /\ cond_outcome' =
                IF \A a \in left : ConditionGreaterThanOrEqualTo(a, cond_lte.right)
                THEN "true" ELSE "false"
    /\ status' = [status EXCEPT ![step_cond.name] = "Succeeded"]
    /\ UNCHANGED <<execution_status, execution_parameters, starts, observed,
                   outputs, reports, lambda_events>>
    /\ UNCHANGED <<default_bucket, service_pipelines>>
    /\ UNCHANGED notebook_vars
    /\ UNCHANGED profiling_vars

\* A running step fails (bad permissions, missing objects, a failing job, a
\* Lambda error, an unreadable property file); it is started again only
\* while its retry policy allows.
FailStep(s) ==
    /\ execution_status = "Executing"
    /\ status[s] = "Executing"
    /\ status' = [status EXCEPT
                     ![s] = IF starts[s] <= Def(s).retry_policies
                            THEN "NotStarted" ELSE "Failed"]
    /\ UNCHANGED <<execution_status, execution_parameters, starts, observed,
                   outputs, reports, cond_left, cond_outcome,
                   lambda_events>>
    /\ UNCHANGED <<default_bucket, service_pipelines>>
    /\ UNCHANGED notebook_vars
    /\ UNCHANGED profiling_vars

\* Every step of the pipeline has succeeded or will not run.
FinishExecution ==
    /\ execution_status = "Executing"
    /\ \A s \in PipelineSteps : status[s] = "Succeeded" \/ Skipped(s)
    /\ execution_status' = "Succeeded"
    /\ UNCHANGED <<execution_parameters, status, starts, observed, outputs,
                   reports, cond_left, cond_outcome,
                   lambda_events>>
    /\ UNCHANGED <<default_bucket, service_pipelines>>
    /\ UNCHANGED notebook_vars
    /\ UNCHANGED profiling_vars

\* A step has failed and nothing is running any more.
FailExecution ==
    /\ execution_status = "Executing"
    /\ \E s \in Steps : status[s] = "Failed"
    /\ \A s \in Steps : status[s] # "Executing"
    /\ execution_status' = "Failed"
    /\ UNCHANGED <<execution_parameters, status, starts, observed, outputs,
                   reports, cond_left, cond_outcome,
                   lambda_events>>
    /\ UNCHANGED <<default_bucket, service_pipelines>>
    /\ UNCHANGED notebook_vars
    /\ UNCHANGED profiling_vars

Next ==
    \/ upsert
    \/ start
    \/ wait
    \/ list_steps
    \/ delete
    \/ \E s \in Steps : StartStep(s)
    \/ \E s \in Steps : SucceedStep(s)
    \/ EvaluateCondition
    \/ \E s \in Steps : FailStep(s)
    \/ FinishExecution
    \/ FailExecution

Spec == Init /\ [][Next]_vars

\* The managed service keeps an execution moving: a ready step is started,
\* a running step ends, a finished execution is marked.
FairSpec ==
    /\ Spec
    /\ \A s \in Steps : WF_vars(StartStep(s))
    /\ \A s \in Steps : WF_vars(SucceedStep(s) \/ FailStep(s))
    /\ WF_vars(EvaluateCondition)
    /\ WF_vars(FinishExecution)
    /\ WF_vars(FailExecution)

\* ------------------------------------------------- the profiling notebook

\* The pipeline notebook while the profiling notebook is the one being run.
PipelineNotRun ==
    /\ default_bucket = "bucket-a"
    /\ pc = "upsert"
    /\ attempts = 0
    /\ wait_result = "pending"
    /\ last_status = "none"
    /\ listed = {}
    /\ service_pipelines = {}
    /\ execution_status = "NotStarted"
    /\ execution_parameters = NoValues
    /\ status = [s \in Steps |-> "NotStarted"]
    /\ starts = [s \in Steps |-> 0]
    /\ observed = [s \in Steps |-> NoValues]
    /\ outputs = [s \in Steps |-> {}]
    /\ reports = [e \in {"earlier", "current"} |-> [s \in Steps |-> {}]]
    /\ cond_left = {}
    /\ cond_outcome = "none"
    /\ lambda_events = <<>>

\* print_top_n_functions(Metrics.CUMULATIVE_TIME, n=10)
top_n == 10

\* step = 9 for the empty configuration
default_step == 9

\* for i in range(10)
range_stop == 10

\* The most functions a cProfile stats object holds here.
MaxFunctions == 11

\* The most step-stats elements a Pyinstrument result holds here.
MaxStepStats == 3

\* The most Step:ModeKeys.TRAIN rows recorded here.
MaxRows == 11

\* StartStep values of a configuration, as the characters of the number.
StartSteps == {<<"9">>, <<"0">>, <<"1", "2">>}

\* ProfilerName values of a configuration; "None" stands for an absent key.
ProfilerNames == {"cprofile", "pyinstrument", "None"}

\* The PythonProfilingConfig dictionary with ProfilerName pn and StartStep
\* ss, a key being left out for "None" and for the empty string.
Config(pn, ss) ==
    [key \in (IF pn = "None" THEN {} ELSE {"ProfilerName"})
                \cup (IF ss = <<>> THEN {} ELSE {"StartStep"}) |->
        IF key = "ProfilerName" THEN pn ELSE ss]

\* dict.get(key): the value, or None when the key is absent.
Get(d, key) == IF key \in DOMAIN d THEN d[key] ELSE "None"

DigitValue(c) ==
    CASE c = "0" -> 0 [] c = "1" -> 1 [] c = "2" -> 2 [] c = "3" -> 3
      [] c = "4" -> 4 [] c = "5" -> 5 [] c = "6" -> 6 [] c = "7" -> 7
      [] c = "8" -> 8 [] c = "9" -> 9

\* int(s) of a string of decimal digits.
RECURSIVE int(_)
int(s) ==
    IF s = <<>> THEN 0
    ELSE 10 * int(SubSeq(s, 1, Len(s) - 1)) + DigitValue(s[Len(s)])

\* One library call the notebook made.
Call(name, args) == [name |-> name, args |-> args]

\* The calls that read profiling metrics.
MetricReads == {"PandasFrame", "get_all_system_metrics",
                "get_all_framework_metrics"}

\* The elements of a set of numbers, in increasing order.
RECURSIVE SetToSeq(_)
SetToSeq(S) ==
    IF S = {} THEN <<>>
    ELSE LET m == CHOOSE x \in S : \A y \in S : x <= y
         IN <<m>> \o SetToSeq(S \ {m})

\* A cProfile stats object over the functions F, each with its own
\* cumulative time.
cProfileStats(F) ==
    [kind |-> "cProfileStats",
     items |-> [k \in 1..Cardinality(F) |->
                   [function_name |-> SetToSeq(F)[k],
                    cumulative_time |-> (SetToSeq(F)[k] * 7) % 13]]]

\* A list of Pyinstrument step stats, each with the html file it wrote.
StepStatsList(paths) ==
    [kind |-> "list",
     items |-> [k \in 1..Len(paths) |-> [html_file_path |-> paths[k]]]]

None == [kind |-> "None", items |-> <<>>]

\* What a fetch_* call of the analysis class may return: None when no stats
\* match, otherwise the stats found.
FetchResults(class) ==
    {None} \cup
    (IF class = "PyinstrumentAnalysis"
     THEN {StepStatsList([k \in 1..m |-> k]) : m \in 1..MaxStepStats}
     ELSE {cProfileStats(1..m) : m \in 1..MaxFunctions})

\* bool(stats): None and an empty list are false, any other object is true.
Truthy(st) == st.kind # "None" /\ (st.kind = "list" => Len(st.items) > 0)

\* items without its element at position k.
Without(items, k) ==
    [j \in 1..(Len(items) - 1) |-> IF j < k THEN items[j] ELSE items[j + 1]]

\* The first n of items by decreasing cumulative time.
RECURSIVE TopByCumulativeTime(_, _)
TopByCumulativeTime(items, n) ==
    IF n = 0 \/ items = <<>> THEN <<>>
    ELSE LET k == CHOOSE a \in DOMAIN items : \A b \in DOMAIN items :
                     \/ items[a].cumulative_time > items[b].cumulative_time
                     \/ /\ items[a].cumulative_time = items[b].cumulative_time
                        /\ a <= b
         IN <<items[k]>> \o TopByCumulativeTime(Without(items, k), n - 1)

\* The function with `if stats:` left out: it iterates whatever it is given.
display_python_profile_stats_unguarded(up, st) ==
    IF up
    THEN [displayed |-> [k \in DOMAIN st.items |-> st.items[k].html_file_path],
          raised |-> st.kind # "list"]
    ELSE [displayed |-> TopByCumulativeTime(st.items, top_n),
          raised |-> st.kind # "cProfileStats"]

\* display_python_profile_stats(stats) with use_pyinstrument = up: what it
\* displayed and whether it raised.
display_python_profile_stats(up, st) ==
    IF up
    THEN IF Truthy(st)
         THEN [displayed |-> [k \in DOMAIN st.items |-> st.items[k].html_file_path],
               raised |-> st.kind # "list"]
         ELSE [displayed |-> <<>>, raised |-> FALSE]
    ELSE IF Truthy(st)
         THEN [displayed |-> TopByCumulativeTime(st.items, top_n),
               raised |-> st.kind # "cProfileStats"]
         ELSE [displayed |-> <<>>, raised |-> FALSE]

job_vars == <<job_status, available, job_config>>

python_vars == <<defined, python_profiling_config_tj, use_pyinstrument,
                 python_analysis_class>>

loader_vars == <<step_metrics_df, iterator_metrics, i, printed>>

\* The training job is configured with any of the configurations; the
\* notebook has run no cell.
ProfInit ==
    /\ PipelineNotRun
    /\ cell = "fit"
    /\ job_status = "NotStarted"
    /\ available = {}
    /\ \E pn \in ProfilerNames : \E ss \in StartSteps \cup {<<>>} :
          job_config = Config(pn, ss)
    /\ defined = {}
    /\ python_profiling_config_tj = NoValues
    /\ use_pyinstrument = FALSE
    /\ python_analysis_class = "unset"
    /\ calls = <<>>
    /\ stats = None
    /\ shown = [displayed |-> <<>>, raised |-> FALSE]
    /\ step_metrics_df = <<>>
    /\ iterator_metrics = {}
    /\ i = 0
    /\ printed = <<>>

\* estimator.fit(wait=False): the job is started and the cell returns.
fit ==
    /\ cell = "fit"
    /\ job_status' = "InProgress"
    /\ calls' = Append(calls, Call("fit", <<"wait=False">>))
    /\ cell' = "wait_for_sys"
    /\ UNCHANGED <<available, job_config, stats, shown>>
    /\ UNCHANGED python_vars
    /\ UNCHANGED loader_vars
    /\ UNCHANGED pipeline_vars

\* The running job uploads its system or its framework profiling data.
UploadProfilingData(kind) ==
    /\ job_status = "InProgress"
    /\ kind \notin available
    /\ available' = available \cup {kind}
    /\ UNCHANGED <<cell, job_status, job_config, calls, stats, shown>>
    /\ UNCHANGED python_vars
    /\ UNCHANGED loader_vars
    /\ UNCHANGED pipeline_vars

\* The job ends.
CompleteJob ==
    /\ job_status = "InProgress"
    /\ job_status' = "Completed"
    /\ UNCHANGED <<cell, available, job_config, calls, stats, shown>>
    /\ UNCHANGED python_vars
    /\ UNCHANGED loader_vars
    /\ UNCHANGED pipeline_vars

\* A wait that returns at once, whether or not the data is there.
wait_without_blocking(kind, from, to) ==
    /\ cell = from
    /\ calls' = Append(calls, Call("wait_for_profiling_data_to_be_available",
                                   <<kind>>))
    /\ cell' = to
    /\ UNCHANGED <<stats, shown>>
    /\ UNCHANGED job_vars
    /\ UNCHANGED python_vars
    /\ UNCHANGED loader_vars
    /\ UNCHANGED pipeline_vars

\* tj.wait_for_sys_profiling_data_to_be_available() and
\* tj.wait_for_framework_profiling_data_to_be_available(): block until the
\* data of that kind is available, then return.
wait_for_profiling_data_to_be_available(kind, from, to) ==
    /\ cell = from
    /\ kind \in available
    /\ calls' = Append(calls, Call("wait_for_profiling_data_to_be_available",
                                   <<kind>>))
    /\ cell' = to
    /\ UNCHANGED <<stats, shown>>
    /\ UNCHANGED job_vars
    /\ UNCHANGED python_vars
    /\ UNCHANGED loader_vars
    /\ UNCHANGED pipeline_vars

\* pf = PandasFrame(tj.profiler_s3_output_path)
PandasFrame ==
    /\ cell = "PandasFrame"
    /\ calls' = Append(calls, Call("PandasFrame", <<>>))
    /\ cell' = "get_all_metrics"
    /\ UNCHANGED <<stats, shown>>
    /\ UNCHANGED job_vars
    /\ UNCHANGED python_vars
    /\ UNCHANGED loader_vars
    /\ UNCHANGED pipeline_vars

\* system_metrics_df = pf.get_all_system_metrics()
\* framework_metrics_df = pf.get_all_framework_metrics(...)
get_all_metrics ==
    /\ cell = "get_all_metrics"
    /\ calls' = calls \o <<Call("get_all_system_metrics", <<>>),
                           Call("get_all_framework_metrics", <<>>)>>
    /\ cell' = "python_profiling_config_tj"
    /\ UNCHANGED <<stats, shown>>
    /\ UNCHANGED job_vars
    /\ UNCHANGED python_vars
    /\ UNCHANGED loader_vars
    /\ UNCHANGED pipeline_vars

\* python_profiling_config_tj = eval(...get("PythonProfilingConfig")): the
\* dictionary the job's configuration string denotes.
eval_python_profiling_config ==
    /\ cell = "python_profiling_config_tj"
    /\ python_profiling_config_tj' = job_config
    /\ defined' = defined \cup {"python_profiling_config_tj"}
    /\ cell' = "use_pyinstrument"
    /\ UNCHANGED <<use_pyinstrument, python_analysis_class, calls, stats, shown>>
    /\ UNCHANGED job_vars
    /\ UNCHANGED loader_vars
    /\ UNCHANGED pipeline_vars

\* Pyinstrument only when the configuration names it.
UsePyinstrumentByName(config) == Get(config, "ProfilerName") = "pyinstrument"

\* False if python_profiling_config_tj.get("ProfilerName") == "cprofile"
\* else True
UsePyinstrument(config) ==
    IF Get(config, "ProfilerName") = "cprofile" THEN FALSE ELSE TRUE

set_use_pyinstrument ==
    /\ cell = "use_pyinstrument"
    /\ use_pyinstrument' = UsePyinstrument(python_profiling_config_tj)
    /\ defined' = defined \cup {"use_pyinstrument"}
    /\ cell' = "python_analysis_class"
    /\ UNCHANGED <<python_profiling_config_tj, python_analysis_class, calls,
                   stats, shown>>
    /\ UNCHANGED job_vars
    /\ UNCHANGED loader_vars
    /\ UNCHANGED pipeline_vars

\* python_analysis_class = PyinstrumentAnalysis if use_pyinstrument else
\* cProfileAnalysis; python_analysis = python_analysis_class(...);
\* python_analysis.list_profile_stats()
set_python_analysis_class ==
    /\ cell = "python_analysis_class"
    /\ python_analysis_class' =
          IF use_pyinstrument THEN "PyinstrumentAnalysis" ELSE "cProfileAnalysis"
    /\ defined' = defined \cup {"python_analysis_class"}
    /\ calls' = Append(calls, Call("list_profile_stats", <<>>))
    /\ cell' = "fetch_pre_step_zero_profile_stats"
    /\ UNCHANGED <<python_profiling_config_tj, use_pyinstrument, stats, shown>>
    /\ UNCHANGED job_vars
    /\ UNCHANGED loader_vars
    /\ UNCHANGED pipeline_vars

\* stats = python_analysis.fetch_pre_step_zero_profile_stats()
\* display_python_profile_stats(stats)
fetch_pre_step_zero_profile_stats ==
    /\ cell = "fetch_pre_step_zero_profile_stats"
    /\ \E result \in FetchResults(python_analysis_class) :
          /\ stats' = result
          /\ shown' = display_python_profile_stats(use_pyinstrument, result)
    /\ calls' = Append(calls, Call("fetch_pre_step_zero_profile_stats", <<>>))
    /\ cell' = IF shown'.raised THEN "error" ELSE "timeline_wait_for_sys"
    /\ UNCHANGED job_vars
    /\ UNCHANGED python_vars
    /\ UNCHANGED loader_vars
    /\ UNCHANGED pipeline_vars

\* python_profiling_config_tj["StartStep"]: a KeyError when the key is
\* absent ends the run of the cells.
show_StartStep ==
    /\ cell = "StartStep"
    /\ cell' = IF "StartStep" \in DOMAIN python_profiling_config_tj
               THEN "fetch_profile_stats_by_step" ELSE "error"
    /\ UNCHANGED <<calls, stats, shown>>
    /\ UNCHANGED job_vars
    /\ UNCHANGED python_vars
    /\ UNCHANGED loader_vars
    /\ UNCHANGED pipeline_vars

\* step = 9 if python_profiling_config_tj == {} else
\* int(python_profiling_config_tj["StartStep"]);
\* python_analysis.fetch_profile_stats_by_step(start_step=step,
\* end_step=step + 1, ...); display_python_profile_stats(python_step_stats)
fetch_profile_stats_by_step ==
    /\ cell = "fetch_profile_stats_by_step"
    /\ IF DOMAIN python_profiling_config_tj # {}
          /\ "StartStep" \notin DOMAIN python_profiling_config_tj
       THEN /\ cell' = "error"
            /\ UNCHANGED <<calls, stats, shown>>
       ELSE LET step == IF DOMAIN python_profiling_config_tj = {}
                        THEN default_step
                        ELSE int(python_profiling_config_tj["StartStep"])
            IN /\ calls' = Append(calls, Call("fetch_profile_stats_by_step",
                                              <<step, step + 1>>))
               /\ \E result \in FetchResults(python_analysis_class) :
                     /\ stats' = result
                     /\ shown' = display_python_profile_stats(use_pyinstrument,
                                                              result)
               /\ cell' = IF shown'.raised THEN "error" ELSE "training_loop"
    /\ UNCHANGED job_vars
    /\ UNCHANGED python_vars
    /\ UNCHANGED loader_vars
    /\ UNCHANGED pipeline_vars

\* The training-loop cell with its test the other way round.
training_loop_inverted ==
    /\ cell = "training_loop"
    /\ IF ~use_pyinstrument
       THEN /\ calls' = Append(calls, Call("print", <<"no training loop stats">>))
            /\ UNCHANGED <<stats, shown>>
       ELSE /\ calls' = Append(calls, Call("fetch_profile_stats_by_job_phase",
                                           <<"training_loop">>))
            /\ \E result \in FetchResults(python_analysis_class) :
                  /\ stats' = result
                  /\ shown' = display_python_profile_stats(use_pyinstrument,
                                                           result)
    /\ cell' = IF shown'.raised THEN "error" ELSE "tj2_wait_for_sys"
    /\ UNCHANGED job_vars
    /\ UNCHANGED python_vars
    /\ UNCHANGED loader_vars
    /\ UNCHANGED pipeline_vars

\* if use_pyinstrument: print(...) else:
\* display_python_profile_stats(
\*     python_analysis.fetch_profile_stats_by_job_phase()["training_loop"])
training_loop ==
    /\ cell = "training_loop"
    /\ IF use_pyinstrument
       THEN /\ calls' = Append(calls, Call("print", <<"no training loop stats">>))
            /\ UNCHANGED <<stats, shown>>
       ELSE /\ calls' = Append(calls, Call("fetch_profile_stats_by_job_phase",
                                           <<"training_loop">>))
            /\ \E result \in FetchResults(python_analysis_class) :
                  /\ stats' = result
                  /\ shown' = display_python_profile_stats(use_pyinstrument,
                                                           result)
    /\ cell' = IF shown'.raised THEN "error" ELSE "tj2_wait_for_sys"
    /\ UNCHANGED job_vars
    /\ UNCHANGED python_vars
    /\ UNCHANGED loader_vars
    /\ UNCHANGED pipeline_vars

\* Row k of the Step:ModeKeys.TRAIN frame: steps follow one another, their
\* durations differ.
StepRow(k) ==
    [step |-> k - 1,
     start_time_us |-> 100 * k,
     end_time_us |-> 100 * k + 40 + 7 * (k % 3)]

\* The frame of the first n recorded train steps.
StepRows(n) == [k \in 1..n |-> StepRow(k)]

\* pf = PandasFrame(...); system_metrics_df = pf.get_all_system_metrics();
\* step_metrics_df = pf.get_all_framework_metrics(["Step:ModeKeys.TRAIN"])
get_step_metrics_df ==
    /\ cell = "step_metrics_df"
    /\ calls' = calls \o <<Call("PandasFrame", <<>>),
                           Call("get_all_system_metrics", <<>>),
                           Call("get_all_framework_metrics", <<>>)>>
    /\ \E n \in 0..MaxRows : step_metrics_df' = StepRows(n)
    /\ cell' = "iterator_metrics"
    /\ UNCHANGED <<iterator_metrics, i, printed, stats, shown>>
    /\ UNCHANGED job_vars
    /\ UNCHANGED python_vars
    /\ UNCHANGED pipeline_vars

\* The cells of the profiling notebook in their order, next to the
\* training job.
ProfNext ==
    \/ fit
    \/ \E kind \in {"system", "framework"} : UploadProfilingData(kind)
    \/ CompleteJob
    \/ wait_for_profiling_data_to_be_available(
           "system", "wait_for_sys", "wait_for_framework")
    \/ wait_for_profiling_data_to_be_available(
           "framework", "wait_for_framework", "PandasFrame")
    \/ PandasFrame
    \/ get_all_metrics
    \/ eval_python_profiling_config
    \/ set_use_pyinstrument
    \/ set_python_analysis_class
    \/ fetch_pre_step_zero_profile_stats
    \/ wait_for_profiling_data_to_be_available(
           "system", "timeline_wait_for_sys", "timeline_wait_for_framework")
    \/ wait_for_profiling_data_to_be_available(
           "framework", "timeline_wait_for_framework", "StartStep")
    \/ show_StartStep
    \/ fetch_profile_stats_by_step
    \/ training_loop
    \/ wait_for_profiling_data_to_be_available(
           "system", "tj2_wait_for_sys", "tj2_wait_for_framework")
    \/ wait_for_profiling_data_to_be_available(
           "framework", "tj2_wait_for_framework", "step_metrics_df")
    \/ get_step_metrics_df

ProfSpec == ProfInit /\ [][ProfNext]_vars

\* ------------------------------------------ display_python_profile_stats

\* The arguments display_python_profile_stats can be given: None, and with
\* Pyinstrument any list of step stats, with cProfile the stats of any
\* functions.
DisplayInputs(up) ==
    {None} \cup
    (IF up
     THEN {StepStatsList(paths) :
              paths \in UNION {[1..m -> {1, 2}] : m \in 0..MaxStepStats}}
     ELSE {cProfileStats(F) : F \in (SUBSET (1..MaxFunctions)) \ {{}}})

\* The function is about to be called with some stats, in either mode.
DisplayInit ==
    /\ PipelineNotRun
    /\ cell = "display_python_profile_stats"
    /\ job_status = "Completed"
    /\ available = {"system", "framework"}
    /\ job_config = NoValues
    /\ defined = {"use_pyinstrument"}
    /\ python_profiling_config_tj = NoValues
    /\ use_pyinstrument \in BOOLEAN
    /\ python_analysis_class = "unset"
    /\ calls = <<>>
    /\ stats \in DisplayInputs(use_pyinstrument)
    /\ shown = [displayed |-> <<>>, raised |-> FALSE]
    /\ step_metrics_df = <<>>
    /\ iterator_metrics = {}
    /\ i = 0
    /\ printed = <<>>

\* display_python_profile_stats(stats)
call_display_python_profile_stats ==
    /\ cell = "display_python_profile_stats"
    /\ shown' = display_python_profile_stats(use_pyinstrument, stats)
    /\ cell' = IF shown'.raised THEN "error" ELSE "displayed"
    /\ UNCHANGED <<calls, stats>>
    /\ UNCHANGED job_vars
    /\ UNCHANGED python_vars
    /\ UNCHANGED loader_vars
    /\ UNCHANGED pipeline_vars

DisplayNext == call_display_python_profile_stats

DisplaySpec == DisplayInit /\ [][DisplayNext]_vars

\* ---------------------------------------------------- the data-loading cell

Event(start_time_us, end_time_us) ==
    [start_time_us |-> start_time_us, end_time_us |-> end_time_us]

\* Data-loading events: two within the first step, one within the second,
\* one that runs over the end of the first step, one before any step.
EventCandidates ==
    {Event(110, 120), Event(115, 140), Event(210, 230), Event(145, 205),
     Event(95, 99)}

\* The frames are loaded; the events are not read yet.
LoaderInit ==
    /\ PipelineNotRun
    /\ cell = "iterator_metrics"
    /\ job_status \in {"InProgress", "Completed"}
    /\ available = {"system", "framework"}
    /\ job_config = NoValues
    /\ defined = {}
    /\ python_profiling_config_tj = NoValues
    /\ use_pyinstrument = FALSE
    /\ python_analysis_class = "unset"
    /\ calls = <<>>
    /\ stats = None
    /\ shown = [displayed |-> <<>>, raised |-> FALSE]
    /\ \E n \in 0..MaxRows : step_metrics_df = StepRows(n)
    /\ iterator_metrics = {}
    /\ i = 0
    /\ printed = <<>>

\* iterator_metrics = pf.get_all_framework_metrics([...Iterator::GetNext])
get_iterator_metrics ==
    /\ cell = "iterator_metrics"
    /\ iterator_metrics' \in SUBSET EventCandidates
    /\ cell' = "for_i_in_range"
    /\ UNCHANGED <<step_metrics_df, i, printed, calls, stats, shown>>
    /\ UNCHANGED job_vars
    /\ UNCHANGED python_vars
    /\ UNCHANGED pipeline_vars

RECURSIVE SumOf(_, _)
\* The sum of the column of the events.
SumOf(events, column) ==
    IF events = {} THEN 0
    ELSE LET e == CHOOSE x \in events : TRUE
         IN e[column] + SumOf(events \ {e}, column)

\* The line one pass of the loop prints for the row cur_step. The average
\* data-loading time mean(end_time_us) - mean(start_time_us) is kept as the
\* fraction <<sum of end - sum of start, number of events>>; <<0, 0>> is
\* the nan of an empty selection.
Line(cur_step) ==
    LET data_iter_cur_step ==
            {e \in iterator_metrics :
                /\ e.start_time_us >= cur_step.start_time_us
                /\ e.end_time_us <= cur_step.end_time_us}
    IN [cur_step_number |-> cur_step.step,
        step_duration |-> cur_step.end_time_us - cur_step.start_time_us,
        num_workers |-> Cardinality(data_iter_cur_step),
        dl_time_mean |-> <<SumOf(data_iter_cur_step, "end_time_us")
                              - SumOf(data_iter_cur_step, "start_time_us"),
                           Cardinality(data_iter_cur_step)>>]

\* for i in range(10): one pass of the loop. step_metrics_df.iloc[i] raises
\* IndexError when the frame has no row i.
for_i_in_range ==
    /\ cell = "for_i_in_range"
    /\ IF i >= range_stop
       THEN cell' = "done" /\ UNCHANGED <<i, printed>>
       ELSE IF i >= Len(step_metrics_df)
       THEN cell' = "error" /\ UNCHANGED <<i, printed>>
       ELSE /\ printed' = Append(printed, Line(step_metrics_df[i + 1]))
            /\ i' = i + 1
            /\ cell' = cell
    /\ UNCHANGED <<step_metrics_df, iterator_metrics, calls, stats, shown>>
    /\ UNCHANGED job_vars
    /\ UNCHANGED python_vars
    /\ UNCHANGED pipeline_vars

LoaderNext ==
    \/ get_iterator_metrics
    \/ for_i_in_range

LoaderSpec == LoaderInit /\ [][LoaderNext]_vars

\* ------------------------------------------------------------------ claims

\* The Accuracy in evaluation.json of this execution's ComprehendTrainAndEval.
Accuracy == reports["current"]["ComprehendTrainAndEval"]

\* C1: ComprehendDeploy is started only in an execution whose Accuracy, read
\* from evaluation.json of its ComprehendTrainAndEval step, is >= 0.65; an
\* Accuracy of exactly 0.65 takes the deploy branch and every Accuracy below
\* 0.65 leaves the deploy branch closed.
C1_DeployOnlyAtOrAboveThreshold ==
    /\ starts["ComprehendDeploy"] > 0 =>
          Accuracy # {} /\ \A a \in Accuracy : a >= 65
    /\ cond_outcome = "true" <=>
          (status["ComprehendAccuracyCondition"] = "Succeeded"
              /\ \A a \in Accuracy : a >= 65)
    /\ cond_outcome = "false" <=>
          (status["ComprehendAccuracyCondition"] = "Succeeded"
              /\ \E a \in Accuracy : a < 65)

\* ComprehendDeploy has started on an Accuracy of exactly 0.65.
C1_Witness ==
    /\ Accuracy = {65}
    /\ starts["ComprehendDeploy"] > 0

\* C2: when the Accuracy is below the threshold no step after
\* ComprehendAccuracyCondition is ever started: neither ComprehendDeploy nor
\* LambdaStep runs.
C2_BelowThresholdStopsAfterCondition ==
    (\E a \in Accuracy : a < 65) =>
        /\ starts["ComprehendDeploy"] = 0
        /\ starts["LambdaStep"] = 0
        /\ status["ComprehendDeploy"] = "NotStarted"
        /\ status["LambdaStep"] = "NotStarted"

\* The execution has ended with the condition false and both steps unrun.
C2_Witness ==
    /\ \E a \in Accuracy : a < 65
    /\ cond_outcome = "false"
    /\ execution_status = "Succeeded"
    /\ starts["LambdaStep"] = 0

\* Some step of the execution has failed.
SomeStepFailed == \E s \in Steps : status[s] = "Failed"

\* C3: under fair scheduling every started execution in which no step fails
\* reaches Succeeded, whether the condition is true or false, and once
\* Succeeded it stays Succeeded.
C3_ReachesSucceeded ==
    /\ (execution_status = "Executing")
          ~> (execution_status = "Succeeded" \/ SomeStepFailed)
    /\ [][execution_status = "Succeeded" => execution_status' = "Succeeded"]_vars

\* The execution has succeeded with the deploy branch skipped.
C3_Witness ==
    /\ execution_status = "Succeeded"
    /\ cond_outcome = "false"
    /\ status["ComprehendDeploy"] = "NotStarted"
    /\ status["LambdaStep"] = "NotStarted"

\* C4: a step that consumes a step output starts only after the producing
\* step of the same execution has succeeded and uploaded that output:
\* ComprehendTrainAndEval after ComprehendProcess ('train'), ComprehendDeploy
\* after ComprehendTrainAndEval ('arn'), LambdaStep after ComprehendDeploy
\* ('endpoint_arn').
C4_ConsumerStartsAfterProducer ==
    /\ starts["ComprehendTrainAndEval"] > 0 =>
          /\ status["ComprehendProcess"] = "Succeeded"
          /\ "train" \in outputs["ComprehendProcess"]
    /\ starts["ComprehendDeploy"] > 0 =>
          /\ status["ComprehendTrainAndEval"] = "Succeeded"
          /\ "arn" \in outputs["ComprehendTrainAndEval"]
    /\ starts["LambdaStep"] > 0 =>
          /\ status["ComprehendDeploy"] = "Succeeded"
          /\ "endpoint_arn" \in outputs["ComprehendDeploy"]

\* LambdaStep has started, so all three references were consumed.
C4_Witness ==
    /\ starts["LambdaStep"] > 0
    /\ starts["ComprehendDeploy"] > 0
    /\ starts["ComprehendTrainAndEval"] > 0

\* C5: ComprehendAccuracyCondition is evaluated only after
\* ComprehendTrainAndEval has succeeded and uploaded its 'evaluation' output,
\* and the value it compares is the Accuracy of evaluation.json of that step
\* in this execution, not that of an earlier execution.
C5_ConditionReadsThisExecutionsReport ==
    /\ starts["ComprehendAccuracyCondition"] > 0 =>
          /\ status["ComprehendTrainAndEval"] = "Succeeded"
          /\ "evaluation" \in outputs["ComprehendTrainAndEval"]
          /\ Accuracy # {}
    /\ cond_outcome # "none" =>
          /\ cond_left # {}
          /\ cond_left = Accuracy

\* The condition has been evaluated while an earlier execution's report with
\* another Accuracy exists.
C5_Witness ==
    /\ cond_outcome # "none"
    /\ reports["earlier"]["ComprehendTrainAndEval"] # {}
    /\ reports["earlier"]["ComprehendTrainAndEval"] # cond_left

\* C6: the parameters of an execution are immutable: the execution starts
\* with every one of the five parameters at its default (no override is
\* given), every step that starts observes exactly those values for the
\* parameters it reads, and no step or notebook action changes them.
C6_ParametersImmutable ==
    [][/\ (execution_status = "NotStarted" /\ execution_status' # "NotStarted") =>
             execution_parameters' =
                 [ProcessingInstanceCount |-> 1,
                  ProcessingInstanceType |-> "ml.m5.xlarge",
                  TrainData |-> "s3://" \o default_bucket \o "/comprehend-train.csv",
                  TestData |-> "s3://" \o default_bucket \o "/comprehend-test.csv",
                  ModelOutput |-> "s3://" \o default_bucket \o "/model"]
       /\ execution_status # "NotStarted" =>
             execution_parameters' = execution_parameters
       /\ \A s \in Steps :
             /\ starts'[s] > starts[s] =>
                   /\ \A n \in DOMAIN observed'[s] :
                         observed'[s][n] = execution_parameters[n]
                   /\ s \in {"ComprehendProcess", "ComprehendTrainAndEval",
                             "ComprehendDeploy"} =>
                         {"ProcessingInstanceType", "ProcessingInstanceCount"}
                             \subseteq DOMAIN observed'[s]
                   /\ s = "ComprehendProcess" =>
                         {"TrainData", "TestData"} \subseteq DOMAIN observed'[s]
                   /\ s = "ComprehendTrainAndEval" =>
                         "ModelOutput" \in DOMAIN observed'[s]
             /\ starts'[s] = starts[s] => observed'[s] = observed[s]]_vars

\* The last processing step has started and observed the starting values.
C6_Witness ==
    /\ starts["ComprehendDeploy"] > 0
    /\ observed["ComprehendDeploy"]["ProcessingInstanceCount"] = 1
    /\ observed["ComprehendTrainAndEval"]["ModelOutput"]
          = "s3://" \o default_bucket \o "/model"

C8_RoleArnIsAParameter ==
    \A p \in service_pipelines :
        /\ "RoleArn" \in ParameterNames(p)
        /\ "RoleArn" \in comprehend_train_and_eval.parameters
        /\ "role_arn" \notin comprehend_train_and_eval.literals

\* The steps in the order their dependencies put them.
C9_Chain ==
    <<"ComprehendProcess", "ComprehendTrainAndEval",
      "ComprehendAccuracyCondition", "ComprehendDeploy", "LambdaStep">>

\* C9: nothing is retried or recovered: a failed step stays failed and is
\* never started again, no step depending on it is started, the execution
\* ends Failed and stays Failed, and the notebook, having observed the
\* failure, stops without a new start.
C9_NothingRetried ==
    /\ [](\A s \in Steps : starts[s] <= 1)
    /\ [](\A k \in DOMAIN C9_Chain : \A j \in DOMAIN C9_Chain :
             (k < j /\ status[C9_Chain[k]] = "Failed") => starts[C9_Chain[j]] = 0)
    /\ [](SomeStepFailed => execution_status \in {"Executing", "Failed"})
    /\ [](wait_result = "failure" =>
             pc = "error" /\ execution_status = "Failed" /\ SomeStepFailed)
    /\ [][\A s \in Steps :
             status[s] = "Failed" =>
                 status'[s] = "Failed" /\ starts'[s] = starts[s]]_vars
    /\ [][execution_status = "Failed" => execution_status' = "Failed"]_vars
    /\ SomeStepFailed ~> (execution_status = "Failed")

\* A step failed, the execution ended Failed and the wait raised on it.
C9_Witness ==
    /\ status["ComprehendTrainAndEval"] = "Failed"
    /\ execution_status = "Failed"
    /\ wait_result = "failure"
    /\ pc = "error"

\* C10: execution.wait(delay=300, max_attempts=25) polls at most 25 times,
\* returns normally only on a poll that saw the execution in the terminal
\* state Succeeded, ends with an error after the 25th poll when no poll saw
\* a terminal state, and no poll changes the execution or the pipeline.
C10_WaitIsBoundedAndPassive ==
    /\ [](attempts <= 25)
    /\ [](pc = "wait" => attempts < 25 /\ wait_result = "pending")
    /\ [](wait_result = "returned" =>
             last_status = "Succeeded" /\ execution_status = "Succeeded")
    /\ [](wait_result \in {"failure", "max_attempts"} => pc = "error")
    /\ []((pc = "error" /\ last_status \notin {"Succeeded", "Failed"}) =>
             attempts = 25 /\ wait_result = "max_attempts")
    /\ [][attempts' # attempts =>
             /\ attempts' = attempts + 1
             /\ UNCHANGED execution_vars
             /\ UNCHANGED service_pipelines]_vars

\* The 25th poll still saw the execution running and the wait raised.
C10_Witness ==
    /\ wait_result = "max_attempts"
    /\ attempts = 25
    /\ last_status = "Executing"

\* The steps s waits for, directly or through other steps, in at most n hops.
RECURSIVE Upstream(_, _)
Upstream(s, n) ==
    IF n = 0 THEN {}
    ELSE DependsOn(s) \cup UNION {Upstream(d, n - 1) : d \in DependsOn(s)}

\* C16: every step output reference of the pipeline names an output its
\* producer declares ('train' on ComprehendProcess, 'arn' on
\* ComprehendTrainAndEval, 'endpoint_arn' on ComprehendDeploy), the property
\* file ComprehendEvaluationReport names the declared output 'evaluation' of
\* ComprehendTrainAndEval, no step waits for itself, and a step that has
\* started found every output it references.
C16_ReferencesResolve ==
    /\ \A s \in PipelineSteps : \A r \in Def(s).references :
          /\ r[1] \in PipelineSteps
          /\ r[2] \in Def(r[1]).outputs
    /\ Def("ComprehendTrainAndEval").references = {<<"ComprehendProcess", "train">>}
    /\ Def("ComprehendDeploy").references = {<<"ComprehendTrainAndEval", "arn">>}
    /\ Def("LambdaStep").references = {<<"ComprehendDeploy", "endpoint_arn">>}
    /\ evaluation_report.name = "ComprehendEvaluationReport"
    /\ evaluation_report.name \in Def(cond_lte.step_name).property_files
    /\ evaluation_report.output_name = "evaluation"
    /\ evaluation_report.output_name \in Def(cond_lte.step_name).outputs
    /\ \A s \in PipelineSteps : s \notin Upstream(s, Cardinality(Steps))
    /\ \A s \in PipelineSteps : starts[s] > 0 =>
          \A r \in Def(s).references : r[2] \in outputs[r[1]]

\* Every step that holds a reference has started in the upserted pipeline.
C16_Witness ==
    /\ pipeline \in service_pipelines
    /\ \A s \in PipelineSteps : Def(s).references # {} => starts[s] > 0

\* C17: the steps run as the single chain ComprehendProcess ->
\* ComprehendTrainAndEval -> ComprehendAccuracyCondition -> ComprehendDeploy
\* -> LambdaStep: a step has started only when the one before it has
\* succeeded, and at most one step is running in every state.
C17_SingleChain ==
    /\ Cardinality({s \in Steps : status[s] = "Executing"}) <= 1
    /\ \A k \in DOMAIN C9_Chain : \A j \in DOMAIN C9_Chain :
          (k < j /\ starts[C9_Chain[j]] > 0) => status[C9_Chain[k]] = "Succeeded"

\* The last step of the chain is the one running.
C17_Witness ==
    /\ status["LambdaStep"] = "Executing"
    /\ \A s \in Steps \ {"LambdaStep"} : status[s] = "Succeeded"

\* C18: within one execution every step is started at most once, so
\* ComprehendDeploy creates at most one endpoint, and the Lambda function is
\* invoked at most once, with the endpoint_arn output of this execution's
\* ComprehendDeploy and the fixed example text.
C18_AtMostOnce ==
    /\ \A s \in Steps : starts[s] <= 1
    /\ Len(lambda_events) <= 1
    /\ Len(lambda_events) = starts["LambdaStep"]
    /\ \A k \in DOMAIN lambda_events :
          /\ lambda_events[k].references =
                {<<"current", "ComprehendDeploy", "endpoint_arn">>}
          /\ lambda_events[k].literals = {"example_text"}
          /\ starts["ComprehendDeploy"] = 1
          /\ "endpoint_arn" \in outputs["ComprehendDeploy"]

\* The Lambda function was invoked and its step ended, either way.
C18_Witness ==
    /\ Len(lambda_events) = 1
    /\ status["LambdaStep"] \in {"Succeeded", "Failed"}

\* C19: the pipeline is upserted before it is started, it is started once,
\* list_steps runs only after execution.wait has returned, and
\* pipeline.delete runs only after the wait has returned, never while it is
\* still polling.
C19_NotebookOrder ==
    /\ [](execution_status # "NotStarted" =>
             pc \notin {"upsert", "start"})
    /\ [](listed # {} => wait_result = "returned")
    /\ [](pc \in {"delete", "done"} => wait_result = "returned")
    /\ [][/\ execution_status' # execution_status /\ execution_status' = "Executing"
             => /\ execution_status = "NotStarted"
                /\ pipeline \in service_pipelines
                /\ pc = "start"
          /\ listed' # listed
             => wait_result = "returned" /\ pc = "list_steps"
          /\ service_pipelines' # service_pipelines /\ service_pipelines # {}
             => /\ wait_result = "returned"
                /\ pc = "delete"
                /\ listed # {}]_vars

\* The notebook ran to its end: upserted, started, waited, listed, deleted.
C19_Witness ==
    /\ pc = "done"
    /\ service_pipelines = {}
    /\ listed # {}
    /\ execution_status = "Succeeded"

\* The wait for the data of that kind is among the first n calls.
Waited(kind, n) ==
    \E k \in 1..n :
        /\ calls[k].name = "wait_for_profiling_data_to_be_available"
        /\ calls[k].args = <<kind>>

\* C11: the training job is started with fit(wait=False) and runs next to
\* the notebook, and every read of profiling metrics (PandasFrame,
\* get_all_system_metrics, get_all_framework_metrics) comes after both
\* wait_for_sys_profiling_data_to_be_available and
\* wait_for_framework_profiling_data_to_be_available have returned, when
\* the system and the framework data are available.
C11_MetricsReadOnlyOnceAvailable ==
    /\ cell # "fit" =>
          /\ calls[1].name = "fit"
          /\ calls[1].args = <<"wait=False">>
          /\ job_status \in {"InProgress", "Completed"}
    /\ \A k \in DOMAIN calls : calls[k].name \in MetricReads =>
          /\ Waited("system", k - 1)
          /\ Waited("framework", k - 1)
          /\ {"system", "framework"} \subseteq available

\* All three kinds of read were made while the job was still running.
C11_Witness ==
    /\ job_status = "InProgress"
    /\ \A name \in MetricReads : \E k \in DOMAIN calls : calls[k].name = name

C13_DisplaysTopTenOrFrames ==
    cell \in {"displayed", "error"} =>
        /\ ~shown.raised
        /\ ~Truthy(stats) => shown.displayed = <<>>
        /\ (use_pyinstrument /\ Truthy(stats)) =>
              /\ Len(shown.displayed) = Len(stats.items)
              /\ \A k \in DOMAIN stats.items :
                    shown.displayed[k] = stats.items[k].html_file_path
        /\ (~use_pyinstrument /\ Truthy(stats)) =>
              /\ Len(shown.displayed) =
                    (IF Len(stats.items) < 10 THEN Len(stats.items) ELSE 10)
              /\ \A k \in DOMAIN shown.displayed :
                    \E j \in DOMAIN stats.items : shown.displayed[k] = stats.items[j]
              /\ \A k \in DOMAIN shown.displayed : \A j \in DOMAIN shown.displayed :
                    k < j => shown.displayed[k].cumulative_time
                                > shown.displayed[j].cumulative_time
              /\ \A j \in DOMAIN stats.items :
                    \/ \E k \in DOMAIN shown.displayed :
                          shown.displayed[k] = stats.items[j]
                    \/ \A k \in DOMAIN shown.displayed :
                          stats.items[j].cumulative_time
                             < shown.displayed[k].cumulative_time

\* Stats of 11 functions were given and 10 of them printed.
C13_Witness ==
    /\ cell = "displayed"
    /\ ~use_pyinstrument
    /\ Len(stats.items) = 11
    /\ Len(shown.displayed) = 10

\* The cells after the training-loop cell.
AfterTrainingLoop ==
    cell \in {"tj2_wait_for_sys", "tj2_wait_for_framework", "step_metrics_df",
              "iterator_metrics"}

\* C14: the training-loop cell fetches and displays stats only with
\* cProfile: when use_pyinstrument is True it prints a message and
\* fetch_profile_stats_by_job_phase is never called; when it is False the
\* cell displays the 'training_loop' entry of the job-phase stats.
C14_TrainingLoopOnlyWithcProfile ==
    /\ ("use_pyinstrument" \in defined /\ use_pyinstrument) =>
          \A k \in DOMAIN calls :
              calls[k].name # "fetch_profile_stats_by_job_phase"
    /\ (AfterTrainingLoop /\ use_pyinstrument) =>
          \E k \in DOMAIN calls : calls[k].name = "print"
    /\ (AfterTrainingLoop /\ ~use_pyinstrument) =>
          /\ \E k \in DOMAIN calls :
                /\ calls[k].name = "fetch_profile_stats_by_job_phase"
                /\ calls[k].args = <<"training_loop">>
          /\ shown = display_python_profile_stats(FALSE, stats)
          /\ \A k \in DOMAIN calls : calls[k].name # "print"

\* With cProfile the training-loop stats were fetched and printed.
C14_Witness ==
    /\ AfterTrainingLoop
    /\ ~use_pyinstrument
    /\ shown.displayed # <<>>
    /\ \E k \in DOMAIN calls : calls[k].name = "fetch_profile_stats_by_job_phase"

\* C15: the data-loading cell completes without error and prints one line
\* for each of the first 10 Step:ModeKeys.TRAIN rows, in row order, with
\* the duration end_time_us - start_time_us and the number of data-loading
\* workers of the step, also when fewer than 10 rows were recorded.
C15_PrintsFirstTenSteps ==
    /\ cell # "error"
    /\ cell = "done" =>
          /\ Len(printed) = (IF Len(step_metrics_df) < 10
                             THEN Len(step_metrics_df) ELSE 10)
          /\ \A k \in DOMAIN printed :
                /\ printed[k].cur_step_number = step_metrics_df[k].step
                /\ printed[k].step_duration =
                      step_metrics_df[k].end_time_us
                         - step_metrics_df[k].start_time_us
                /\ printed[k].num_workers =
                      Cardinality({e \in iterator_metrics :
                          /\ e.start_time_us >= step_metrics_df[k].start_time_us
                          /\ e.end_time_us <= step_metrics_df[k].end_time_us})

\* C20: for the empty configuration and for every configuration with a
\* StartStep, the cells run in order reach fetch_profile_stats_by_step, with
\* start_step = 9 for the empty configuration and int(StartStep)
\* otherwise, and end_step = start_step + 1.
C20_ReachesFetchByStep ==
    (DOMAIN job_config = {} \/ "StartStep" \in DOMAIN job_config) =>
        /\ cell = "error" =>
              \E k \in DOMAIN calls :
                  calls[k].name = "fetch_profile_stats_by_step"
        /\ \A k \in DOMAIN calls :
              calls[k].name = "fetch_profile_stats_by_step" =>
                  /\ calls[k].args[1] =
                        (IF DOMAIN job_config = {} THEN 9
                         ELSE int(job_config["StartStep"]))
                  /\ calls[k].args[2] = calls[k].args[1] + 1

====
